---- MODULE Spec2Model ----
(***************************************************************************)
(* The counter program of src/src/lib.rs: one entry point,                 *)
(* process_instruction, which decodes an instruction buffer, reads a u32   *)
(* counter out of the data of the first account, applies the instruction   *)
(* and writes the counter back.                                            *)
(*                                                                         *)
(* A u32 is kept as two 16-bit limbs [hi, lo] (value = hi * 2^16 + lo):    *)
(* the model checker's integers are 32-bit signed, so the full width of    *)
(* the counter is kept by limb arithmetic, never by a narrower type.       *)
(***************************************************************************)
EXTENDS Integers, Sequences, FiniteSets, TLC

VARIABLES
    accounts,           \* accounts[i] is the data buffer of the i-th AccountInfo
    overflow_checks,    \* build profile: are integer overflow checks compiled in
    instructions_data,  \* instruction buffer of the last invocation
    accounts_in,        \* the account data as the last invocation received them
    instruction,        \* the local `instruction` of the last invocation
    result,             \* outcome of the last invocation
    failed_at,          \* the step of the last invocation that failed
    counter_account,    \* the local `counter_account.counter` of the last
                        \* invocation at its end, <<>> when it was never read
    calls,              \* number of invocations so far
    log                 \* the invocations so far, where they are recorded

vars == <<accounts, overflow_checks, instructions_data, accounts_in,
          instruction, result, failed_at, counter_account, calls, log>>

(***************************************************************************)
(* Bounds                                                                  *)
(***************************************************************************)
MaxCalls == 2       \* invocations in one behaviour
MaxAccounts == 2    \* accounts handed to one invocation
MaxTrailing == 2    \* bytes following the opcode of a Reset buffer
MaxLogged == 3      \* invocations in one recorded behaviour

(***************************************************************************)
(* u32 and its byte encodings                                              *)
(***************************************************************************)
ByteBase == 256
LimbBase == ByteBase * ByteBase

u32(h, l) == [hi |-> h, lo |-> l]

U32Zero == u32(0, 0)
U32Max == u32(LimbBase - 1, LimbBase - 1)

\* u32::to_le_bytes / the borsh serialization of a u32
to_le_bytes(x) ==
    << x.lo % ByteBase, x.lo \div ByteBase, x.hi % ByteBase, x.hi \div ByteBase >>

\* a mis-ordered decoding: most significant byte first
from_be_bytes(b) ==
    u32(b[2] + ByteBase * b[1], b[4] + ByteBase * b[3])

\* u32::from_le_bytes / the borsh deserialization of a u32
from_le_bytes(b) ==
    u32(b[3] + ByteBase * b[4], b[1] + ByteBase * b[2])

\* a > b on u32
gt(a, b) == a.hi > b.hi \/ (a.hi = b.hi /\ a.lo > b.lo)

\* a + b in u32 arithmetic: the low 32 bits and whether the sum left the range
overflowing_add(a, b) ==
    LET l == a.lo + b.lo
        h == a.hi + b.hi + (l \div LimbBase)
    IN  [value |-> u32(h % LimbBase, l % LimbBase), overflow |-> h >= LimbBase]

\* a - b in u32 arithmetic: the low 32 bits and whether the difference left the range
overflowing_sub(a, b) ==
    LET borrow == IF a.lo < b.lo THEN 1 ELSE 0
        l == a.lo + borrow * LimbBase - b.lo
        h == a.hi - b.hi - borrow
    IN  [value |-> u32((h + LimbBase) % LimbBase, l), overflow |-> h < 0]

\* `a += b` on u32: panics on overflow when the build checks overflow,
\* keeps the low 32 bits otherwise
add_assign(a, b, checks) ==
    LET r == overflowing_add(a, b)
    IN  [panic |-> r.overflow /\ checks, value |-> r.value]

\* `a -= b` on u32, likewise
sub_assign(a, b, checks) ==
    LET r == overflowing_sub(a, b)
    IN  [panic |-> r.overflow /\ checks, value |-> r.value]

(***************************************************************************)
(* CounterInstructions::unpack (instructions module): byte 0 selects the   *)
(* variant, bytes 1..4 are the little-endian operand of opcodes 0, 1, 2.   *)
(***************************************************************************)
NoInstruction == [tag |-> "None", args |-> <<>>]

Decoded(t, a) == [err |-> "None", ins |-> [tag |-> t, args |-> a]]
DecodeError(e) == [err |-> e, ins |-> NoInstruction]

OpcodeTag(op) ==
    CASE op = 0 -> "Increment"
      [] op = 1 -> "Decrement"
      [] op = 2 -> "Update"
      [] op = 3 -> "Reset"
      [] OTHER -> "Unknown"

\* The kind of error for an empty buffer is not fixed by the format; it is
\* reported as an unknown opcode here.
unpack(input) ==
    IF Len(input) = 0 THEN DecodeError("UnknownOpcode")
    ELSE LET tag == OpcodeTag(input[1]) IN
         IF tag = "Unknown" THEN DecodeError("UnknownOpcode")
         ELSE IF tag = "Reset" THEN Decoded("Reset", <<>>)
         ELSE IF Len(input) < 5 THEN DecodeError("TruncatedPayload")
         ELSE Decoded(tag, << from_le_bytes(SubSeq(input, 2, 5)) >>)

(***************************************************************************)
(* Steps of process_instruction                                            *)
(***************************************************************************)
\* a lookup that takes the last account of the list
next_account_info_last(accs) ==
    IF Len(accs) = 0 THEN [err |-> "NotEnoughAccountKeys", index |-> 0]
    ELSE [err |-> "None", index |-> Len(accs)]

\* next_account_info on a fresh iterator over the accounts
next_account_info(accs) ==
    IF Len(accs) = 0 THEN [err |-> "NotEnoughAccountKeys", index |-> 0]
    ELSE [err |-> "None", index |-> 1]

\* a reader that pads a short buffer with zero bytes
try_from_slice_lenient(data) ==
    IF Len(data) > 4 THEN [err |-> "BorshIoError", counter |-> U32Zero]
    ELSE [err |-> "None",
          counter |-> from_le_bytes([i \in 1..4 |-> IF i <= Len(data) THEN data[i] ELSE 0])]

\* a reader that takes the first 4 bytes and ignores what follows them
try_from_slice_prefix(data) ==
    IF Len(data) < 4 THEN [err |-> "BorshIoError", counter |-> U32Zero]
    ELSE [err |-> "None", counter |-> from_le_bytes(SubSeq(data, 1, 4))]

\* CounterAccount::try_from_slice: exactly the 4 bytes of the counter, no
\* fewer and no more
try_from_slice(data) ==
    IF Len(data) < 4 THEN [err |-> "BorshIoError", counter |-> U32Zero]
    ELSE IF Len(data) > 4 THEN [err |-> "BorshIoError", counter |-> U32Zero]
    ELSE [err |-> "None", counter |-> from_le_bytes(SubSeq(data, 1, 4))]

NoPanic(v) == [panic |-> FALSE, value |-> v]

\* the Increment arm
increment(counter, value, checks) == add_assign(counter, value, checks)

\* a Decrement arm that subtracts without comparing first
decrement_unguarded(counter, value, checks) == sub_assign(counter, value, checks)

\* the Decrement arm: clamp at zero when the operand is the larger
decrement(counter, value, checks) ==
    IF gt(value, counter) THEN NoPanic(U32Zero)
    ELSE sub_assign(counter, value, checks)

\* a Reset arm that leaves the counter as it is
reset_keeps(counter) == NoPanic(counter)

\* the Reset arm
reset(counter) == NoPanic(U32Zero)

\* an Update arm that adds the operand to the counter
update_adds(counter, value) == NoPanic(overflowing_add(counter, value).value)

\* the Update arm
update(counter, value) == NoPanic(value)

\* the match on the instruction: the next counter, or a panic
apply_instruction(counter, ins, checks) ==
    CASE ins.tag = "Increment" -> increment(counter, ins.args[1], checks)
      [] ins.tag = "Decrement" -> decrement(counter, ins.args[1], checks)
      [] ins.tag = "Reset" -> reset(counter)
      [] ins.tag = "Update" -> update(counter, ins.args[1])

\* a write-back that reports success without touching the data
serialize_skipped(data, counter) == [err |-> "None", data |-> data]

\* a write-back that stores the most significant byte first
serialize_big_endian(data, counter) ==
    LET le == to_le_bytes(counter)
        n == IF Len(data) < 4 THEN Len(data) ELSE 4
    IN  [err |-> IF Len(data) < 4 THEN "BorshIoError" ELSE "None",
         data |-> [i \in 1..Len(data) |-> IF i <= n THEN le[5 - i] ELSE data[i]]]

\* a write-back that appends the bytes, as writing into a growable buffer does
serialize_appending(data, counter) ==
    [err |-> "None", data |-> data \o to_le_bytes(counter)]

\* counter_account.serialize into the account data: the bytes are copied
\* into the front of the slice as far as they fit; running out of room is
\* an error after the copy
serialize(data, counter) ==
    LET bytes == to_le_bytes(counter)
        n == IF Len(data) < 4 THEN Len(data) ELSE 4
    IN  [err |-> IF Len(data) < 4 THEN "BorshIoError" ELSE "None",
         data |-> [i \in 1..Len(data) |-> IF i <= n THEN bytes[i] ELSE data[i]]]

Outcome(res, at, ins, accs) ==
    [result |-> res, failed_at |-> at, instruction |-> ins, accounts |-> accs,
     counter_account |-> <<>>]

\* an outcome reached with counter_account holding c
WithCounter(out, c) == [out EXCEPT !.counter_account = <<c>>]

\* lines 30..56: everything after the instruction was decoded
after_unpack(accs, ins, checks) ==
    LET acc == next_account_info(accs) IN
    IF acc.err # "None" THEN Outcome(acc.err, "account", ins, accs)
    ELSE
    LET rd == try_from_slice(accs[acc.index]) IN
    IF rd.err # "None" THEN Outcome(rd.err, "read", ins, accs)
    ELSE
    LET nxt == apply_instruction(rd.counter, ins, checks) IN
    IF nxt.panic THEN WithCounter(Outcome("Panic", "compute", ins, accs), rd.counter)
    ELSE
    LET wr == serialize(accs[acc.index], nxt.value)
        written == [accs EXCEPT ![acc.index] = wr.data]
    IN  IF wr.err # "None"
        THEN WithCounter(Outcome(wr.err, "write", ins, written), nxt.value)
        ELSE WithCounter(Outcome("Ok", "None", ins, written), nxt.value)

\* a body that carries on with Reset when the buffer does not decode
run_ignoring_decode_error(accs, input, checks) ==
    LET d == unpack(input) IN
    IF d.err # "None"
    THEN [after_unpack(accs, [tag |-> "Reset", args |-> <<>>], checks)
            EXCEPT !.result = d.err, !.failed_at = "decode", !.instruction = NoInstruction,
                   !.counter_account = <<>>]
    ELSE after_unpack(accs, d.ins, checks)

\* a body that looks the account up before it decodes the instruction
run_accounts_first(accs, input, checks) ==
    LET acc == next_account_info(accs)
        d == unpack(input)
    IN  IF acc.err # "None" THEN Outcome(acc.err, "account", NoInstruction, accs)
        ELSE IF d.err # "None" THEN Outcome(d.err, "decode", NoInstruction, accs)
        ELSE after_unpack(accs, d.ins, checks)

\* the body of process_instruction as a function of its inputs
run(accs, input, checks) ==
    LET d == unpack(input) IN
    IF d.err # "None" THEN Outcome(d.err, "decode", NoInstruction, accs)
    ELSE after_unpack(accs, d.ins, checks)

(***************************************************************************)
(* Inputs                                                                  *)
(***************************************************************************)
Operands ==
    { u32(0, 0), u32(0, 1), u32(0, 16), u32(0, 48), u32(0, 100),
      u32(0, LimbBase - 1), u32(LimbBase \div 2, 0), U32Max }

InitCounters ==
    { u32(0, 0), u32(0, 32), u32(0, 48), u32(1, 0),
      u32(LimbBase - 1, LimbBase - 2), U32Max }

\* state buffers that are not the 4-byte layout
MalformedData == { <<>>, <<48, 0, 0>>, <<48, 0, 0, 0, 0>> }

FirstData == { to_le_bytes(c) : c \in InitCounters } \cup MalformedData
OtherData == { <<7, 7, 7, 7>>, <<>> }

RECURSIVE SeqsUpTo(_, _)
SeqsUpTo(S, n) ==
    IF n = 0 THEN { <<>> }
    ELSE LET shorter == SeqsUpTo(S, n - 1)
         IN  shorter \cup { Append(s, x) : s \in { t \in shorter : Len(t) = n - 1 }, x \in S }

AccountLists ==
    { <<>> } \cup
    { <<d>> \o rest : d \in FirstData, rest \in SeqsUpTo(OtherData, MaxAccounts - 1) }

WellFormed == { <<op>> \o to_le_bytes(v) : op \in 0..2, v \in Operands }
Truncated == { SubSeq(b, 1, k) : b \in WellFormed, k \in 1..4 }
ResetBuffers == { <<3>> \o t : t \in SeqsUpTo({0, 9}, MaxTrailing) }
UnknownBuffers == { <<op>> \o t : op \in {4, 9, 255}, t \in { <<>>, <<48, 0, 0, 0>> } }

InstructionBuffers ==
    WellFormed \cup Truncated \cup ResetBuffers \cup UnknownBuffers \cup { <<>> }

(***************************************************************************)
(* The state machine                                                       *)
(***************************************************************************)
Init ==
    /\ accounts \in AccountLists
    /\ overflow_checks \in BOOLEAN
    /\ instructions_data = <<>>
    /\ accounts_in = accounts
    /\ instruction = NoInstruction
    /\ result = "NotInvoked"
    /\ failed_at = "None"
    /\ counter_account = <<>>
    /\ calls = 0
    /\ log = <<>>

\* an invocation that computes from the account data handed to the
\* invocation before it
Invoke_stale(input) ==
    /\ LET out == run(IF calls = 0 THEN accounts ELSE accounts_in, input, overflow_checks) IN
        /\ accounts' = out.accounts
        /\ result' = out.result
        /\ failed_at' = out.failed_at
        /\ instruction' = out.instruction
        /\ counter_account' = out.counter_account
    /\ instructions_data' = input
    /\ accounts_in' = accounts
    /\ calls' = calls + 1
    /\ UNCHANGED overflow_checks

\* one invocation of the entry point on the current account data
Invoke(input) ==
    /\ LET out == run(accounts, input, overflow_checks) IN
        /\ accounts' = out.accounts
        /\ result' = out.result
        /\ failed_at' = out.failed_at
        /\ instruction' = out.instruction
        /\ counter_account' = out.counter_account
    /\ instructions_data' = input
    /\ accounts_in' = accounts
    /\ calls' = calls + 1
    /\ UNCHANGED overflow_checks

process_instruction(input) ==
    /\ calls < MaxCalls
    /\ Invoke(input)
    /\ UNCHANGED log

Next == \E input \in InstructionBuffers : process_instruction(input)

Spec == Init /\ [][Next]_vars

(***************************************************************************)
(* The same entry point with every invocation recorded, on a smaller set   *)
(* of inputs, for the properties of sequences of invocations.              *)
(***************************************************************************)
LoggedCounters == { u32(0, 0), u32(0, 48), U32Max }
LoggedOperands == { u32(0, 1), u32(0, 48), U32Max }

LoggedAccountLists ==
    { <<>>, << <<48, 0, 0>> >>, << <<48, 0, 0, 0>>, <<7, 7, 7, 7>> >> } \cup
    { << to_le_bytes(c) >> : c \in LoggedCounters }

LoggedBuffers ==
    { <<op>> \o to_le_bytes(v) : op \in 0..1, v \in LoggedOperands } \cup
    { <<2, 100, 0, 0, 0>>, <<3>>, <<9>>, <<1, 48>>, <<>> }

InitLogged ==
    /\ accounts \in LoggedAccountLists
    /\ overflow_checks \in BOOLEAN
    /\ instructions_data = <<>>
    /\ accounts_in = accounts
    /\ instruction = NoInstruction
    /\ result = "NotInvoked"
    /\ failed_at = "None"
    /\ counter_account = <<>>
    /\ calls = 0
    /\ log = <<>>

process_instruction_logged(input) ==
    /\ Len(log) < MaxLogged
    /\ Invoke(input)
    /\ log' = Append(log, [input |-> input, before |-> accounts, result |-> result',
                           instruction |-> instruction', after |-> accounts'])

NextLogged == \E input \in LoggedBuffers : process_instruction_logged(input)

SpecLogged == InitLogged /\ [][NextLogged]_vars

(***************************************************************************)
(* Byte-level arithmetic on 4-byte little-endian buffers, used to state    *)
(* the properties independently of the limb arithmetic above.              *)
(***************************************************************************)
ZeroBytes == <<0, 0, 0, 0>>

LeCarries(a, b) ==
    LET c1 == (a[1] + b[1]) \div ByteBase
        c2 == (a[2] + b[2] + c1) \div ByteBase
        c3 == (a[3] + b[3] + c2) \div ByteBase
        c4 == (a[4] + b[4] + c3) \div ByteBase
    IN  <<0, c1, c2, c3, c4>>

\* (a + b) mod 2^32
LeAddMod(a, b) ==
    LET c == LeCarries(a, b)
    IN  [i \in 1..4 |-> (a[i] + b[i] + c[i]) % ByteBase]

\* a + b > 2^32 - 1
LeAddOverflows(a, b) == LeCarries(a, b)[5] = 1

\* a > b
LeGreater(a, b) ==
    \E i \in 1..4 : a[i] > b[i] /\ \A j \in (i + 1)..4 : a[j] = b[j]

\* r = a - b, for b <= a
LeIsDifference(r, a, b) == LeAddMod(r, b) = a /\ ~LeAddOverflows(r, b)

Invoked == result # "NotInvoked"

\* the last invocation was handed a first account holding the 4-byte layout
StateReadable == Len(accounts_in) >= 1 /\ Len(accounts_in[1]) = 4

OldBytes == accounts_in[1]
NewBytes == accounts[1]
OperandBytes == to_le_bytes(instruction.args[1])

(***************************************************************************)
(* C1: an invocation carrying Increment(v) on a state buffer holding c     *)
(* succeeds and leaves (c + v) mod 2^32 in the buffer, also when c + v     *)
(* exceeds 2^32 - 1.                                                       *)
(***************************************************************************)
C1_IncrementWraps ==
    (instruction.tag = "Increment" /\ StateReadable) =>
        /\ result = "Ok"
        /\ NewBytes = LeAddMod(OldBytes, OperandBytes)

(***************************************************************************)
(* C2: an invocation carrying Decrement(v) on a state buffer holding c     *)
(* succeeds and leaves 0 when v > c and c - v otherwise.                   *)
(***************************************************************************)
C2_DecrementClamps ==
    (instruction.tag = "Decrement" /\ StateReadable) =>
        /\ result = "Ok"
        /\ IF LeGreater(OperandBytes, OldBytes)
           THEN NewBytes = ZeroBytes
           ELSE LeIsDifference(NewBytes, OldBytes, OperandBytes)

C2_Witness ==
    /\ instruction.tag = "Decrement"
    /\ StateReadable
    /\ LeGreater(OperandBytes, OldBytes)
    /\ OldBytes # ZeroBytes
    /\ overflow_checks
    /\ result = "Ok"

(***************************************************************************)
(* C3: an invocation carrying Reset leaves 0 in the state buffer whatever  *)
(* the counter was.                                                        *)
(***************************************************************************)
C3_ResetZeroes ==
    (instruction.tag = "Reset" /\ StateReadable) =>
        /\ result = "Ok"
        /\ NewBytes = ZeroBytes

C3_Witness ==
    /\ instruction.tag = "Reset"
    /\ StateReadable
    /\ OldBytes = <<255, 255, 255, 255>>
    /\ NewBytes = ZeroBytes

(***************************************************************************)
(* C4: an invocation carrying Update(v) leaves exactly v in the state      *)
(* buffer, whatever the counter was.                                       *)
(***************************************************************************)
C4_UpdateSets ==
    (instruction.tag = "Update" /\ StateReadable) =>
        /\ result = "Ok"
        /\ NewBytes = OperandBytes
        /\ NewBytes = SubSeq(instructions_data, 2, 5)

C4_Witness ==
    /\ instruction.tag = "Update"
    /\ StateReadable
    /\ OldBytes = <<48, 0, 0, 0>>
    /\ NewBytes = <<100, 0, 0, 0>>

(***************************************************************************)
(* C5: byte 0 selects the variant (0 Increment, 1 Decrement, 2 Update,     *)
(* 3 Reset) and the 5-byte buffer [opcode, v little-endian] with opcode    *)
(* 0, 1 or 2 decodes to that variant carrying v.                           *)
(***************************************************************************)
C5_DecodeWellFormed ==
    /\ (Invoked /\ Len(instructions_data) = 5 /\ instructions_data[1] \in 0..2) =>
        /\ failed_at # "decode"
        /\ instruction.tag =
             (CASE instructions_data[1] = 0 -> "Increment"
                [] instructions_data[1] = 1 -> "Decrement"
                [] instructions_data[1] = 2 -> "Update")
        /\ Len(instruction.args) = 1
        /\ instruction.args[1].lo = instructions_data[2] + 256 * instructions_data[3]
        /\ instruction.args[1].hi = instructions_data[4] + 256 * instructions_data[5]
    /\ (Invoked /\ instructions_data = <<3>>) =>
        /\ failed_at # "decode"
        /\ instruction = [tag |-> "Reset", args |-> <<>>]

C5_Witness ==
    /\ instructions_data = <<1, 100, 0, 0, 0>>
    /\ instruction = [tag |-> "Decrement", args |-> << u32(0, 100) >>]

(***************************************************************************)
(* C6: an instruction buffer whose first byte is not 0, 1, 2 or 3 makes    *)
(* the invocation fail with UnknownOpcode and leaves the state buffer      *)
(* byte-for-byte as it was.                                                *)
(***************************************************************************)
C6_UnknownOpcode ==
    (Invoked /\ Len(instructions_data) >= 1 /\ instructions_data[1] \notin 0..3) =>
        /\ result = "UnknownOpcode"
        /\ accounts = accounts_in

C6_Witness ==
    /\ instructions_data = <<9>>
    /\ StateReadable
    /\ OldBytes = <<48, 0, 0, 0>>
    /\ result = "UnknownOpcode"

(***************************************************************************)
(* C7: an instruction buffer whose first byte is 0, 1 or 2 and that is     *)
(* shorter than 5 bytes makes the invocation fail with TruncatedPayload    *)
(* (an error result, not a panic) and leaves the state buffer unchanged.   *)
(***************************************************************************)
C7_TruncatedPayload ==
    (Invoked /\ Len(instructions_data) \in 1..4 /\ instructions_data[1] \in 0..2) =>
        /\ result = "TruncatedPayload"
        /\ accounts = accounts_in

C7_Witness ==
    /\ instructions_data = <<2, 100, 0, 0>>
    /\ StateReadable
    /\ OldBytes = <<48, 0, 0, 0>>
    /\ result = "TruncatedPayload"

(***************************************************************************)
(* C8: an instruction buffer whose first byte is 3 decodes to Reset        *)
(* whatever follows that byte, and the invocation sets the counter to 0.   *)
(***************************************************************************)
C8_ResetIgnoresTrailing ==
    (Invoked /\ Len(instructions_data) >= 1 /\ instructions_data[1] = 3) =>
        /\ failed_at # "decode"
        /\ instruction = [tag |-> "Reset", args |-> <<>>]
        /\ StateReadable => (result = "Ok" /\ NewBytes = ZeroBytes)

C8_Witness ==
    /\ instructions_data = <<3, 9, 0>>
    /\ StateReadable
    /\ OldBytes = <<48, 0, 0, 0>>
    /\ NewBytes = ZeroBytes

(***************************************************************************)
(* C9: an invocation is all-or-nothing on the state buffer: after an error *)
(* (or a panic) the account data are exactly what they were, after a       *)
(* success the first account holds exactly the encoding of the transition  *)
(* applied to the old counter; never a mixture of old and new bytes.       *)
(***************************************************************************)
LeBorrows(a, b) ==
    LET w1 == IF a[1] < b[1] THEN 1 ELSE 0
        w2 == IF a[2] < b[2] + w1 THEN 1 ELSE 0
        w3 == IF a[3] < b[3] + w2 THEN 1 ELSE 0
    IN  <<0, w1, w2, w3>>

\* (a - b) mod 2^32
LeSubMod(a, b) ==
    LET w == LeBorrows(a, b)
    IN  [i \in 1..4 |-> (a[i] + ByteBase - b[i] - w[i]) % ByteBase]

\* the transition function of the specification on encoded counters
ApplyBytes(c, ins) ==
    CASE ins.tag = "Increment" -> LeAddMod(c, to_le_bytes(ins.args[1]))
      [] ins.tag = "Decrement" ->
            IF LeGreater(to_le_bytes(ins.args[1]), c) THEN ZeroBytes
            ELSE LeSubMod(c, to_le_bytes(ins.args[1]))
      [] ins.tag = "Reset" -> ZeroBytes
      [] ins.tag = "Update" -> to_le_bytes(ins.args[1])

C9_AllOrNothing ==
    /\ (Invoked /\ result # "Ok") => accounts = accounts_in
    /\ result = "Ok" =>
        /\ StateReadable
        /\ accounts = [accounts_in EXCEPT ![1] = ApplyBytes(OldBytes, instruction)]

C9_Witness ==
    /\ result = "BorshIoError"
    /\ failed_at = "read"
    /\ instruction.tag = "Reset"
    /\ accounts_in[1] = <<48, 0, 0>>

(***************************************************************************)
(* C10: when the state buffer is not the 4-byte counter layout, an         *)
(* invocation with a decodable instruction fails with the state            *)
(* deserialization error and leaves the buffer unmodified.                 *)
(***************************************************************************)
C10_UnreadableState ==
    (Invoked /\ failed_at # "decode" /\ Len(accounts_in) >= 1 /\ Len(accounts_in[1]) # 4) =>
        /\ result = "BorshIoError"
        /\ failed_at = "read"
        /\ accounts = accounts_in

C10_Witness ==
    /\ instruction.tag = "Update"
    /\ Len(accounts_in) >= 1
    /\ accounts_in[1] = <<48, 0, 0, 0, 0>>
    /\ result = "BorshIoError"
    /\ accounts = accounts_in

(***************************************************************************)
(* C11: a state buffer of 4 bytes or more is acceptable: an invocation     *)
(* with a decodable instruction succeeds, takes the counter from the first *)
(* 4 bytes (little-endian), writes the next counter into those 4 bytes and *)
(* leaves the length of the buffer and the bytes after them as they were.  *)
(***************************************************************************)
\* the last invocation carried an Increment whose sum leaves the u32 range
\* (what happens then is the subject of C1)
IncrementLeavesRange ==
    /\ instruction.tag = "Increment"
    /\ LeAddOverflows(SubSeq(OldBytes, 1, 4), OperandBytes)

\* the claim as stated, on the transitions that stay in range
C11_AtLeastFourBytes ==
    (/\ Invoked /\ failed_at # "decode"
     /\ Len(accounts_in) >= 1 /\ Len(accounts_in[1]) >= 4
     /\ ~IncrementLeavesRange) =>
        /\ result = "Ok"
        /\ Len(NewBytes) = Len(OldBytes)
        /\ SubSeq(NewBytes, 1, 4) = ApplyBytes(SubSeq(OldBytes, 1, 4), instruction)
        /\ \A i \in 5..Len(OldBytes) : NewBytes[i] = OldBytes[i]

\* C11 as amended: the state buffer is acceptable when it is exactly 4
\* bytes: then a decodable instruction never fails in reading or writing
\* the state, it succeeds unless it is an Increment that leaves the range,
\* and on success those 4 bytes hold the next counter; a buffer longer than
\* 4 bytes is rejected with the state deserialization error; in every case
\* the buffer keeps its length.
C11_ExactlyFourBytes ==
    (Invoked /\ failed_at # "decode" /\ Len(accounts_in) >= 1 /\ Len(accounts_in[1]) >= 4) =>
        /\ Len(NewBytes) = Len(OldBytes)
        /\ Len(OldBytes) = 4 =>
            /\ failed_at \notin {"read", "write"}
            /\ result = "Ok" \/ IncrementLeavesRange
            /\ Len(counter_account) = 1
            /\ result = "Ok" => NewBytes = ApplyBytes(OldBytes, instruction)
        /\ Len(OldBytes) > 4 =>
            /\ result = "BorshIoError"
            /\ failed_at = "read"
            /\ NewBytes = OldBytes

C11_Witness ==
    /\ instruction.tag = "Decrement"
    /\ Len(accounts_in) >= 1
    /\ accounts_in[1] = <<48, 0, 0, 0, 0>>
    /\ result = "BorshIoError"

(***************************************************************************)
(* C12: the transition is total: on a readable 4-byte state buffer every   *)
(* decoded instruction makes the invocation succeed; an invocation fails   *)
(* only in decoding, in finding or reading the state buffer, or in writing *)
(* the result back, never in computing the next counter.                   *)
(***************************************************************************)
C12_TransitionTotal ==
    /\ (Invoked /\ failed_at # "decode" /\ StateReadable) => result = "Ok"
    /\ Invoked => failed_at \in {"None", "decode", "account", "read", "write"}

(***************************************************************************)
(* C13: decoding and the invocation are deterministic and total: every     *)
(* instruction buffer, the empty one included, gives exactly one outcome,  *)
(* an instruction or a decode error, and two invocations handed the same   *)
(* instruction bytes and the same account data give the same result and    *)
(* leave the same account data.                                            *)
(***************************************************************************)
DecodeErrors == {"UnknownOpcode", "TruncatedPayload"}
InstructionTags == {"Increment", "Decrement", "Update", "Reset"}

C14_RoundTrip ==
    result = "Ok" =>
        /\ Len(counter_account) = 1
        /\ Len(NewBytes) = 4
        /\ try_from_slice(NewBytes) = [err |-> "None", counter |-> counter_account[1]]
        /\ \A i \in 1..4 : NewBytes[i] \in 0..255
        /\ NewBytes[1] + 256 * NewBytes[2] = counter_account[1].lo
        /\ NewBytes[3] + 256 * NewBytes[4] = counter_account[1].hi

C14_Witness ==
    /\ result = "Ok"
    /\ counter_account = << u32(65535, 65534) >>
    /\ NewBytes = <<254, 255, 255, 255>>
    /\ OldBytes # NewBytes

(***************************************************************************)
(* C15: starting from a 4-byte state buffer, after any sequence of         *)
(* invocations with any instruction buffers the state buffer is still 4    *)
(* bytes long and deserializes to a counter in 0..2^32-1; no invocation,   *)
(* failed or not, makes the state read of a later invocation fail.         *)
(***************************************************************************)
\* the recorded behaviour started with a first account of 4 bytes
StartedReadable ==
    /\ Len(log) >= 1
    /\ Len(log[1].before) >= 1
    /\ Len(log[1].before[1]) = 4

IsU32(c) == c.hi \in 0..(LimbBase - 1) /\ c.lo \in 0..(LimbBase - 1)

C15_StateStaysReadable ==
    StartedReadable =>
        /\ Len(accounts) = Len(log[1].before)
        /\ Len(accounts[1]) = 4
        /\ \A i \in 1..4 : accounts[1][i] \in 0..(ByteBase - 1)
        /\ try_from_slice(accounts[1]).err = "None"
        /\ IsU32(try_from_slice(accounts[1]).counter)
        /\ \A i \in 1..Len(log) :
            /\ log[i].result \notin {"BorshIoError", "NotEnoughAccountKeys"}
            /\ Len(log[i].after[1]) = 4

C15_Witness ==
    /\ StartedReadable
    /\ Len(log) = 3
    /\ log[1].result = "TruncatedPayload"
    /\ log[2].result = "Panic"
    /\ log[3].result = "Ok"
    /\ log[3].after # log[3].before

(***************************************************************************)
(* C16: the buffer is the only state: after any sequence of invocations on *)
(* a state buffer that started as counter c0, the buffer holds the fold of *)
(* the transition function over the instructions of exactly the            *)
(* invocations that returned success, in order, from c0; failed            *)
(* invocations contribute nothing.                                         *)
(***************************************************************************)
RECURSIVE FoldApply(_, _, _)
\* the fold of ApplyBytes over the successful entries k..Len(entries) from c
FoldApply(entries, k, c) ==
    IF k > Len(entries) THEN c
    ELSE FoldApply(entries, k + 1,
                   IF entries[k].result = "Ok"
                   THEN ApplyBytes(c, entries[k].instruction)
                   ELSE c)

C16_FoldOfSuccesses ==
    /\ StartedReadable =>
        accounts = [log[1].before EXCEPT ![1] = FoldApply(log, 1, log[1].before[1])]
    /\ (Len(log) >= 1 /\ ~StartedReadable) =>
        /\ accounts = log[1].before
        /\ \A i \in 1..Len(log) : log[i].result # "Ok"

C16_Witness ==
    /\ StartedReadable
    /\ Len(log) = 3
    /\ log[1].result = "Ok"
    /\ log[2].result = "UnknownOpcode"
    /\ log[3].result = "Ok"
    /\ log[1].after # log[1].before
    /\ log[3].after # log[3].before
    /\ accounts # log[1].before

(***************************************************************************)
(* C17: a decode failure comes before every other failure and before the   *)
(* state is touched: a buffer that does not decode gives the decode error  *)
(* also when the accounts list is empty or the state buffer is malformed;  *)
(* the account lookup failure comes before the state read failure.         *)
(***************************************************************************)
Undecodable(b) ==
    \/ Len(b) = 0
    \/ b[1] \notin 0..3
    \/ b[1] \in 0..2 /\ Len(b) < 5

C17_DecodeFirst ==
    /\ (Invoked /\ Undecodable(instructions_data)) =>
        /\ result \in DecodeErrors
        /\ failed_at = "decode"
        /\ counter_account = <<>>
        /\ accounts = accounts_in
    /\ (Invoked /\ ~Undecodable(instructions_data) /\ accounts_in = <<>>) =>
        /\ result = "NotEnoughAccountKeys"
        /\ failed_at = "account"
    /\ (Invoked /\ failed_at = "read") =>
        /\ ~Undecodable(instructions_data)
        /\ Len(accounts_in) >= 1

C17_Witness ==
    /\ instructions_data = <<1, 100, 0>>
    /\ accounts_in = <<>>
    /\ result = "TruncatedPayload"

(***************************************************************************)
(* C18: an invocation reads and writes only the data of the first account: *)
(* the data of every other account are unchanged whatever the instruction, *)
(* the outcome is the one the first account alone gives, and an invocation *)
(* handed no account returns an error having changed nothing.              *)
(***************************************************************************)
C18_FirstAccountOnly ==
    Invoked =>
        /\ Len(accounts) = Len(accounts_in)
        /\ \A i \in 2..Len(accounts_in) : accounts[i] = accounts_in[i]
        /\ Len(accounts_in) >= 1 =>
            LET alone == run(<< accounts_in[1] >>, instructions_data, overflow_checks)
            IN  /\ result = alone.result
                /\ accounts[1] = alone.accounts[1]
        /\ accounts_in = <<>> =>
            /\ result \in DecodeErrors \cup {"NotEnoughAccountKeys"}
            /\ accounts = <<>>

C18_Witness ==
    /\ Len(accounts_in) = 2
    /\ accounts_in[2] = <<7, 7, 7, 7>>
    /\ result = "Ok"
    /\ accounts[1] # accounts_in[1]
    /\ accounts[2] = <<7, 7, 7, 7>>

(***************************************************************************)
(* C19: Increment(v) followed by Decrement(v) from counter c ends with c   *)
(* when c + v <= 2^32-1, and ends with 0, which differs from c, when       *)
(* c + v > 2^32-1.                                                         *)
(***************************************************************************)
C19_IncrementThenDecrement ==
    \A i \in 1..(Len(log) - 1) :
        (/\ log[i].instruction.tag = "Increment"
         /\ log[i + 1].instruction.tag = "Decrement"
         /\ log[i + 1].instruction.args = log[i].instruction.args
         /\ Len(log[i].before) >= 1
         /\ Len(log[i].before[1]) = 4) =>
            LET c == log[i].before[1]
                v == to_le_bytes(log[i].instruction.args[1])
            IN  IF LeAddOverflows(c, v)
                THEN log[i + 1].after[1] = ZeroBytes /\ c # ZeroBytes
                ELSE log[i + 1].after[1] = c

====
